---- MODULE Spec2Model ----
(***************************************************************************)
(* HDFS storage driver of the registry: the fileWriter write transaction,  *)
(* the driver operations built on it, and the regulator that bounds the    *)
(* number of driver operations in flight.                                  *)
(*                                                                         *)
(* The remote filesystem is a map from physical paths (sequences of path   *)
(* components) to nodes.  A transport write handle buffers the bytes it    *)
(* accepts and appends them to the file when it is flushed.  Every backend *)
(* call may fail; a failed call has no effect, except that a transport     *)
(* write may accept a prefix of its bytes before it fails.                 *)
(***************************************************************************)
EXTENDS Integers, Sequences, FiniteSets, TLC

VARIABLES
    fs,         \* the remote filesystem: physical path -> node
    fw,         \* the fileWriter most recently returned by Writer
    appendMode, \* whether that Writer call asked for append mode
    prior,      \* the node at fw.path when that Writer call started
    written,    \* the bytes the transport handle of fw accepted since then
    ret,        \* the last operation and what it returned
    calls,      \* the backend calls the last operation issued, in order
    faulted,    \* whether a backend call of the last operation failed
    available,  \* regulator: free slots
    pc,         \* regulator: where each caller is
    op,         \* regulator: the operation each caller invoked
    maxClients, \* config.maxClients of the driver
    result      \* what the last operation of each caller returned

vars ==
    <<fs, fw, appendMode, prior, written, ret, calls, faulted, available, pc, op,
      maxClients, result>>

fsVars == <<fs, fw, appendMode, prior, written, ret, calls, faulted>>
regVars == <<available, pc, op, maxClients, result>>

---------------------------------------------------------------------------
\* Bounds

MaxLen == 2         \* longest byte sequence handed to one Write / PutContent
MaxSize == 2        \* longest file content
MaxPut == 1         \* longest byte sequence handed to PutContent
MaxCap == 2         \* largest maxClients
NumCallers == 3     \* concurrent callers of the regulated driver
MaxDepth == 4       \* most components of a logical path

Byte == {0, 1}

RECURSIVE SeqsUpTo(_)
SeqsUpTo(n) ==
    IF n = 0 THEN {<< >>}
    ELSE LET S == SeqsUpTo(n - 1)
         IN  S \cup {Append(s, b) : s \in {t \in S : Len(t) = n - 1}, b \in Byte}

Payloads == SeqsUpTo(MaxLen)
PutPayloads == SeqsUpTo(MaxPut)

---------------------------------------------------------------------------
\* Errors

Nil == "nil"
ErrClosed == "already closed"
ErrCommitted == "already committed"
ErrCancelled == "already cancelled"
ErrBackend == "backend error"
ErrNotExist == "file does not exist"
ErrExist == "file exists"
PathNotFoundError == "PathNotFoundError"
InvalidOffsetError == "InvalidOffsetError"

StateViolations == {ErrClosed, ErrCommitted, ErrCancelled}

---------------------------------------------------------------------------
\* Paths

rootPath == <<"r">>

LogicalPaths == {<<"d">>, <<"d", "f">>}

\* path.Clean on a rooted path: "." is dropped, ".." removes the component
\* before it and is dropped at the root
RECURSIVE Clean(_, _)
Clean(comps, acc) ==
    IF comps = << >> THEN acc
    ELSE LET c == Head(comps)
         IN  IF c = "." THEN Clean(Tail(comps), acc)
             ELSE IF c = ".."
                  THEN Clean(Tail(comps),
                             IF acc = << >> THEN acc ELSE SubSeq(acc, 1, Len(acc) - 1))
                  ELSE Clean(Tail(comps), Append(acc, c))

fullPath(subPath) == Clean(rootPath \o subPath, << >>)

Dir(p) == IF p = << >> THEN p ELSE SubSeq(p, 1, Len(p) - 1)

Prefixes(p) == {SubSeq(p, 1, k) : k \in 0..Len(p)}

IsPrefix(p, q) == Len(p) <= Len(q) /\ SubSeq(q, 1, Len(p)) = p

\* the logical paths Move is given: a destination whose parent is missing,
\* and the place a directory moved there takes its child to
MovePaths == LogicalPaths \cup {<<"e", "g">>}

AllPaths ==
    UNION {Prefixes(fullPath(l)) : l \in MovePaths \cup {<<"e", "g", "f">>}}

---------------------------------------------------------------------------
\* The remote filesystem and its client

Absent == [kind |-> "absent", data |-> << >>]
Directory == [kind |-> "dir", data |-> << >>]
File(d) == [kind |-> "file", data |-> d]

Exists(f, p) == f[p].kind # "absent"

\* client.MkdirAll: fails when a component of the path is a file
clientMkdirAll(f, p, ok) ==
    IF ~ok \/ \E q \in Prefixes(p) : f[q].kind = "file"
    THEN [fs |-> f, err |-> ErrBackend]
    ELSE [fs |-> [q \in AllPaths |-> IF q \in Prefixes(p) THEN Directory ELSE f[q]],
          err |-> Nil]

\* client.Stat
clientStat(f, p, ok) ==
    IF ~ok THEN [err |-> ErrBackend, size |-> 0, isDir |-> FALSE]
    ELSE IF ~Exists(f, p) THEN [err |-> ErrNotExist, size |-> 0, isDir |-> FALSE]
    ELSE [err |-> Nil, size |-> Len(f[p].data), isDir |-> f[p].kind = "dir"]

\* client.Remove: removes the path and everything beneath it
clientRemove(f, p, ok) ==
    IF ~ok THEN [fs |-> f, err |-> ErrBackend]
    ELSE IF ~Exists(f, p) THEN [fs |-> f, err |-> ErrNotExist]
    ELSE [fs |-> [q \in AllPaths |-> IF IsPrefix(p, q) THEN Absent ELSE f[q]],
          err |-> Nil]

\* a transport write handle
NilFile == [state |-> "nil", path |-> << >>, buf |-> << >>]
OpenFile(p) == [state |-> "open", path |-> p, buf |-> << >>]

\* client.Create: fails when the path exists
clientCreate(f, p, ok) ==
    IF ~ok THEN [fs |-> f, err |-> ErrBackend, file |-> NilFile]
    ELSE IF Exists(f, p) THEN [fs |-> f, err |-> ErrExist, file |-> NilFile]
    ELSE IF f[Dir(p)].kind # "dir" THEN [fs |-> f, err |-> ErrBackend, file |-> NilFile]
    ELSE [fs |-> [f EXCEPT ![p] = File(<< >>)], err |-> Nil, file |-> OpenFile(p)]

\* client.Append: fails when the path is not a file
clientAppend(f, p, ok) ==
    IF ~ok THEN [err |-> ErrBackend, file |-> NilFile]
    ELSE IF ~Exists(f, p) THEN [err |-> ErrNotExist, file |-> NilFile]
    ELSE IF f[p].kind # "file" THEN [err |-> ErrBackend, file |-> NilFile]
    ELSE [err |-> Nil, file |-> OpenFile(p)]

\* client.Rename: the source and everything beneath it move to the
\* destination, replacing a file or an empty directory found there; fails
\* when the source is missing, when the parent of the destination is not a
\* directory, when the destination lies beneath the source or is a directory
\* that is not empty
clientRename(f, src, dst, ok) ==
    IF ~ok THEN [fs |-> f, err |-> ErrBackend]
    ELSE IF ~Exists(f, src) THEN [fs |-> f, err |-> ErrNotExist]
    ELSE IF IsPrefix(src, dst) \/ f[Dir(dst)].kind # "dir"
            \/ \E q \in AllPaths : q # dst /\ IsPrefix(dst, q) /\ Exists(f, q)
    THEN [fs |-> f, err |-> ErrBackend]
    ELSE [fs |-> [q \in AllPaths |->
                    IF IsPrefix(dst, q)
                    THEN LET from == src \o SubSeq(q, Len(dst) + 1, Len(q))
                         IN  IF from \in AllPaths THEN f[from] ELSE Absent
                    ELSE IF IsPrefix(src, q) THEN Absent
                    ELSE f[q]],
          err |-> Nil]

\* file.Write: the handle accepts the first n bytes
fileWrite(h, p, n) ==
    [file |-> [h EXCEPT !.buf = @ \o SubSeq(p, 1, n)],
     n |-> n,
     err |-> IF n < Len(p) THEN ErrBackend ELSE Nil]

\* file.Flush: the buffered bytes reach the file.  On a handle that was closed
\* the call has no effect and either fails or not.
fileFlush(f, h, ok) ==
    IF h.state # "open" THEN [fs |-> f, file |-> h, err |-> IF ok THEN Nil ELSE ErrBackend]
    ELSE IF ~ok \/ f[h.path].kind # "file" THEN [fs |-> f, file |-> h, err |-> ErrBackend]
    ELSE [fs |-> [f EXCEPT ![h.path] = File(@.data \o h.buf)],
          file |-> [h EXCEPT !.buf = << >>],
          err |-> Nil]

\* file.Close: flushes what is buffered and releases the handle
fileClose(f, h, ok) ==
    IF h.state # "open" THEN [fs |-> f, file |-> h, err |-> IF ok THEN Nil ELSE ErrBackend]
    ELSE IF ~ok THEN [fs |-> f, file |-> h, err |-> ErrBackend]
    ELSE [fs |-> IF f[h.path].kind = "file"
                 THEN [f EXCEPT ![h.path] = File(@.data \o h.buf)]
                 ELSE f,
          file |-> [h EXCEPT !.state = "closed", !.buf = << >>],
          err |-> Nil]

---------------------------------------------------------------------------
\* fileWriter

NoWriter ==
    [file |-> NilFile, path |-> << >>, size |-> 0,
     closed |-> FALSE, committed |-> FALSE, cancelled |-> FALSE]

newWriter(p, hdfsFileWriter, offset) ==
    [file |-> hdfsFileWriter, path |-> p, size |-> offset,
     closed |-> FALSE, committed |-> FALSE, cancelled |-> FALSE]

\* what a fileWriter method leaves behind: the filesystem, the writer, the
\* returned error and count, the backend calls issued and whether one failed
Res(f, w, err, n, cs, failed) ==
    [fs |-> f, fw |-> w, err |-> err, n |-> n, calls |-> cs, failed |-> failed]

\* Write without the guard on committed
WriteIgnoresCommitted(f, w, p, n) ==
    IF w.closed THEN Res(f, w, ErrClosed, 0, << >>, FALSE)
    ELSE IF w.cancelled THEN Res(f, w, ErrCancelled, 0, << >>, FALSE)
    ELSE LET r == fileWrite(w.file, p, n)
         IN  Res(f, [w EXCEPT !.file = r.file, !.size = @ + r.n],
                 r.err, r.n, <<"file.Write">>, r.err # Nil)

\* fileWriter.Write; n is the number of bytes the transport accepts
Write(f, w, p, n) ==
    IF w.closed THEN Res(f, w, ErrClosed, 0, << >>, FALSE)
    ELSE IF w.committed THEN Res(f, w, ErrCommitted, 0, << >>, FALSE)
    ELSE IF w.cancelled THEN Res(f, w, ErrCancelled, 0, << >>, FALSE)
    ELSE LET r == fileWrite(w.file, p, n)
         IN  Res(f, [w EXCEPT !.file = r.file, !.size = @ + r.n],
                 r.err, r.n, <<"file.Write">>, r.err # Nil)

\* fileWriter.Size
Size(w) == w.size

\* Close that treats a second call as a no-op
CloseTwiceIsNoOp(f, w, flushOk, closeOk) ==
    IF w.closed THEN Res(f, w, Nil, 0, << >>, FALSE)
    ELSE LET fl == fileFlush(f, w.file, flushOk)
             cl == fileClose(fl.fs, fl.file, closeOk)
         IN  IF fl.err # Nil
             THEN Res(fl.fs, [w EXCEPT !.file = fl.file], fl.err, 0,
                      <<"file.Flush">>, TRUE)
             ELSE IF cl.err # Nil
             THEN Res(cl.fs, [w EXCEPT !.file = cl.file], cl.err, 0,
                      <<"file.Flush", "file.Close">>, TRUE)
             ELSE Res(cl.fs, [w EXCEPT !.file = cl.file, !.closed = TRUE],
                      Nil, 0, <<"file.Flush", "file.Close">>, FALSE)

\* fileWriter.Close
Close(f, w, flushOk, closeOk) ==
    IF w.closed THEN Res(f, w, ErrClosed, 0, << >>, FALSE)
    ELSE LET fl == fileFlush(f, w.file, flushOk)
         IN  IF fl.err # Nil
             THEN Res(fl.fs, [w EXCEPT !.file = fl.file], fl.err, 0,
                      <<"file.Flush">>, TRUE)
             ELSE LET cl == fileClose(fl.fs, fl.file, closeOk)
                  IN  IF cl.err # Nil
                      THEN Res(cl.fs, [w EXCEPT !.file = cl.file], cl.err, 0,
                               <<"file.Flush", "file.Close">>, TRUE)
                      ELSE Res(cl.fs, [w EXCEPT !.file = cl.file, !.closed = TRUE],
                               Nil, 0, <<"file.Flush", "file.Close">>, FALSE)

\* Cancel that closes the handle and leaves the file where it is
CancelKeepsFile(f, w, closeOk, removeOk) ==
    IF w.closed THEN Res(f, w, ErrClosed, 0, << >>, FALSE)
    ELSE LET cl == fileClose(f, w.file, closeOk)
         IN  Res(cl.fs, [w EXCEPT !.file = cl.file, !.cancelled = TRUE],
                 cl.err, 0, <<"file.Close">>, cl.err # Nil)

\* fileWriter.Cancel
Cancel(f, w, closeOk, removeOk) ==
    IF w.closed THEN Res(f, w, ErrClosed, 0, << >>, FALSE)
    ELSE LET cl == fileClose(f, w.file, closeOk)
             rm == clientRemove(cl.fs, w.path, removeOk)
         IN  Res(rm.fs, [w EXCEPT !.file = cl.file, !.cancelled = TRUE],
                 rm.err, 0, <<"file.Close", "client.Remove">>,
                 cl.err # Nil \/ rm.err # Nil)

\* Commit that sets committed before it knows the outcome of the flush
CommitFlagFirst(f, w, flushOk) ==
    IF w.closed THEN Res(f, w, ErrClosed, 0, << >>, FALSE)
    ELSE IF w.committed THEN Res(f, w, ErrCommitted, 0, << >>, FALSE)
    ELSE IF w.cancelled THEN Res(f, w, ErrCancelled, 0, << >>, FALSE)
    ELSE LET fl == fileFlush(f, w.file, flushOk)
         IN  Res(fl.fs, [w EXCEPT !.file = fl.file, !.committed = TRUE],
                 fl.err, 0, <<"file.Flush">>, fl.err # Nil)

\* fileWriter.Commit
Commit(f, w, flushOk) ==
    IF w.closed THEN Res(f, w, ErrClosed, 0, << >>, FALSE)
    ELSE IF w.committed THEN Res(f, w, ErrCommitted, 0, << >>, FALSE)
    ELSE IF w.cancelled THEN Res(f, w, ErrCancelled, 0, << >>, FALSE)
    ELSE LET fl == fileFlush(f, w.file, flushOk)
         IN  IF fl.err # Nil
             THEN Res(fl.fs, [w EXCEPT !.file = fl.file], fl.err, 0,
                      <<"file.Flush">>, TRUE)
             ELSE Res(fl.fs, [w EXCEPT !.file = fl.file, !.committed = TRUE],
                      Nil, 0, <<"file.Flush">>, FALSE)

---------------------------------------------------------------------------
\* driver

\* the outcomes of the backend calls of one operation: TRUE where the call
\* is allowed to succeed
AllOk ==
    [client |-> TRUE, mkdir |-> TRUE, stat |-> TRUE, remove |-> TRUE, open |-> TRUE,
     seek |-> TRUE, read |-> TRUE, rename |-> TRUE]

\* an operation returns at its first failed call, so at most one call fails
Outcomes == {AllOk} \cup {[AllOk EXCEPT ![k] = FALSE] : k \in DOMAIN AllOk}

\* the outcomes that Writer, Stat, GetContent, Move and Delete can tell apart
WriterOutcomes == {o \in Outcomes : o.seek /\ o.read /\ o.rename}
StatOutcomes ==
    {o \in Outcomes : o.mkdir /\ o.remove /\ o.open /\ o.seek /\ o.read /\ o.rename}
ReadOutcomes == {o \in Outcomes : o.mkdir /\ o.remove /\ o.stat /\ o.rename}
MoveOutcomes == {o \in Outcomes : o.remove /\ o.open /\ o.seek /\ o.read}
DeleteOutcomes == {o \in Outcomes : o.mkdir /\ o.open /\ o.seek /\ o.read /\ o.rename}

\* newHdfsClient
newHdfsClient(ok) == IF ok THEN Nil ELSE ErrBackend

\* Writer that never records the size of the file it appends to
writerOffsetUnset(st, append) == 0

\* Writer that records the size of an existing file in both modes and does not
\* reset it for a created file
writerOffsetNotReset(st, append) == IF st.err = Nil THEN st.size ELSE 0

\* driver.Writer: the size the new fileWriter starts from, given the result of
\* the Stat of the path: the size of the existing file in append mode, zero for
\* a created file
writerOffset(st, append) ==
    IF append THEN (IF st.err = Nil THEN st.size ELSE 0) ELSE 0

\* driver.Writer
Writer(f, subPath, append, o) ==
    LET p == fullPath(subPath)
        parentDir == Dir(p)
        mk == clientMkdirAll(f, parentDir, o.mkdir)
        st == clientStat(mk.fs, p, o.stat)
        rm == clientRemove(mk.fs, p, o.remove)
        \* the filesystem once an existing file was dealt with
        f2 == IF st.err = Nil /\ ~append THEN rm.fs ELSE mk.fs
        size == writerOffset(st, append)
        ap == clientAppend(f2, p, o.open)
        cr == clientCreate(f2, p, o.open)
    IN  IF newHdfsClient(o.client) # Nil
        THEN Res(f, NoWriter, ErrBackend, 0, <<"hdfs.New">>, TRUE)
        ELSE IF mk.err # Nil
        THEN Res(mk.fs, NoWriter, mk.err, 0, <<"hdfs.New", "client.MkdirAll">>, TRUE)
        ELSE IF st.err \notin {Nil, ErrNotExist}
        THEN Res(mk.fs, NoWriter, st.err, 0,
                 <<"hdfs.New", "client.MkdirAll", "client.Stat">>, TRUE)
        ELSE IF st.err = Nil /\ ~append /\ rm.err # Nil
        THEN Res(rm.fs, NoWriter, rm.err, 0,
                 <<"hdfs.New", "client.MkdirAll", "client.Stat", "client.Remove">>, TRUE)
        ELSE LET cs == <<"hdfs.New", "client.MkdirAll", "client.Stat">>
                       \o (IF st.err = Nil /\ ~append THEN <<"client.Remove">> ELSE << >>)
             IN  IF append
                 THEN IF ap.err # Nil
                      THEN Res(f2, NoWriter, ap.err, 0, Append(cs, "client.Append"), TRUE)
                      ELSE Res(f2, newWriter(p, ap.file, size), Nil, 0,
                               Append(cs, "client.Append"), FALSE)
                 ELSE IF cr.err # Nil
                      THEN Res(cr.fs, NoWriter, cr.err, 0, Append(cs, "client.Create"), TRUE)
                      ELSE Res(cr.fs, newWriter(p, cr.file, size), Nil, 0,
                               Append(cs, "client.Create"), FALSE)

\* fromOSFileInfo
fromOSFileInfo(subPath, info) ==
    [Path |-> subPath, IsDir |-> info.isDir, Size |-> info.size]

NoFileInfo == [Path |-> << >>, IsDir |-> FALSE, Size |-> 0]

\* driver.Stat
Stat(f, subPath, o) ==
    LET p == fullPath(subPath)
        fi == clientStat(f, p, o.stat)
    IN  IF newHdfsClient(o.client) # Nil THEN [err |-> ErrBackend, info |-> NoFileInfo]
        ELSE IF fi.err = ErrNotExist THEN [err |-> PathNotFoundError, info |-> NoFileInfo]
        ELSE IF fi.err # Nil THEN [err |-> fi.err, info |-> NoFileInfo]
        ELSE [err |-> Nil, info |-> fromOSFileInfo(subPath, fi)]

\* client.Open: a read handle on the bytes stored at the path
clientOpen(f, p, ok) ==
    IF ~ok THEN [err |-> ErrBackend, data |-> << >>]
    ELSE IF ~Exists(f, p) THEN [err |-> ErrNotExist, data |-> << >>]
    ELSE [err |-> Nil, data |-> f[p].data]

\* file.Seek(offset, io.SeekStart): past the end of the file the client either
\* reports an error or stops at the end
fileSeek(data, offset, ok, clamp) ==
    IF ~ok THEN [err |-> ErrBackend, pos |-> 0]
    ELSE IF offset <= Len(data) THEN [err |-> Nil, pos |-> offset]
    ELSE IF clamp THEN [err |-> Nil, pos |-> Len(data)]
    ELSE [err |-> ErrBackend, pos |-> 0]

\* driver.Reader; rest is what the returned stream still has to deliver and
\* handle tells whether the read handle was never opened ("none"), was closed
\* by Reader ("closed") or is handed to the caller ("open")
Reader(f, subPath, offset, o, clamp) ==
    LET p == fullPath(subPath)
        file == clientOpen(f, p, o.open)
        sk == fileSeek(file.data, offset, o.seek, clamp)
        fail(e, h) == [err |-> e, rest |-> << >>, handle |-> h]
    IN  IF newHdfsClient(o.client) # Nil THEN fail(ErrBackend, "none")
        ELSE IF file.err = ErrNotExist THEN fail(PathNotFoundError, "none")
        ELSE IF file.err # Nil THEN fail(file.err, "none")
        ELSE IF sk.err # Nil THEN fail(sk.err, "closed")
        ELSE IF sk.pos < offset THEN fail(InvalidOffsetError, "closed")
        ELSE [err |-> Nil, rest |-> SubSeq(file.data, sk.pos + 1, Len(file.data)),
              handle |-> "open"]

\* driver.GetContent
GetContent(f, subPath, o) ==
    LET rc == Reader(f, subPath, 0, o, FALSE)
    IN  IF rc.err # Nil THEN [err |-> rc.err, data |-> << >>]
        ELSE IF ~o.read THEN [err |-> ErrBackend, data |-> << >>]
        ELSE [err |-> Nil, data |-> rc.rest]

\* what Move and Delete return: the filesystem they leave, the error, the
\* backend calls issued and whether one of them failed for a reason other
\* than a missing path
TreeRes(f, err, cs, failed) == [fs |-> f, err |-> err, calls |-> cs, failed |-> failed]

\* Move that creates the parent of the destination before it looks at the
\* source
MoveMkdirFirst(f, sourcePath, destPath, o) ==
    LET source == fullPath(sourcePath)
        dest == fullPath(destPath)
        mk == clientMkdirAll(f, Dir(dest), o.mkdir)
        st == clientStat(mk.fs, source, o.stat)
        rn == clientRename(mk.fs, source, dest, o.rename)
    IN  IF newHdfsClient(o.client) # Nil THEN TreeRes(f, ErrBackend, << >>, TRUE)
        ELSE IF mk.err # Nil THEN TreeRes(f, mk.err, <<"client.MkdirAll">>, TRUE)
        ELSE IF st.err = ErrNotExist
        THEN TreeRes(mk.fs, PathNotFoundError, <<"client.MkdirAll", "client.Stat">>, FALSE)
        ELSE TreeRes(rn.fs, rn.err, <<"client.MkdirAll", "client.Stat", "client.Rename">>,
                     st.err # Nil \/ rn.err # Nil)

\* driver.Move: only a missing source ends Move at the Stat; any other error
\* of the Stat is passed over
Move(f, sourcePath, destPath, o) ==
    LET source == fullPath(sourcePath)
        dest == fullPath(destPath)
        st == clientStat(f, source, o.stat)
        mk == clientMkdirAll(f, Dir(dest), o.mkdir)
        rn == clientRename(mk.fs, source, dest, o.rename)
    IN  IF newHdfsClient(o.client) # Nil THEN TreeRes(f, ErrBackend, << >>, TRUE)
        ELSE IF st.err = ErrNotExist
        THEN TreeRes(f, PathNotFoundError, <<"client.Stat">>, FALSE)
        ELSE IF mk.err # Nil
        THEN TreeRes(f, mk.err, <<"client.Stat", "client.MkdirAll">>, TRUE)
        ELSE TreeRes(rn.fs, rn.err, <<"client.Stat", "client.MkdirAll", "client.Rename">>,
                     st.err # Nil \/ rn.err # Nil)

\* Delete that goes to Remove without a look at the path
DeleteWithoutStat(f, subPath, o) ==
    LET rm == clientRemove(f, fullPath(subPath), o.remove)
    IN  IF newHdfsClient(o.client) # Nil THEN TreeRes(f, ErrBackend, << >>, TRUE)
        ELSE TreeRes(rm.fs, rm.err, <<"client.Remove">>, ~o.remove)

\* driver.Delete
Delete(f, subPath, o) ==
    LET p == fullPath(subPath)
        st == clientStat(f, p, o.stat)
        rm == clientRemove(f, p, o.remove)
    IN  IF newHdfsClient(o.client) # Nil THEN TreeRes(f, ErrBackend, << >>, TRUE)
        ELSE IF st.err # Nil /\ st.err # ErrNotExist
        THEN TreeRes(f, st.err, <<"client.Stat">>, TRUE)
        ELSE IF st.err = ErrNotExist
        THEN TreeRes(f, PathNotFoundError, <<"client.Stat">>, FALSE)
        ELSE TreeRes(rm.fs, rm.err, <<"client.Stat", "client.Remove">>, rm.err # Nil)

\* the outcomes of the backend calls of one PutContent: those of its Writer
\* call, the bytes the transport does not accept, the flush of Commit, the
\* close and the remove of Cancel, the flush and the close of the deferred
\* Close.  Outcomes of calls that are not reached are left TRUE and, next to a
\* short write, at most one call fails.
PutAllOk ==
    [writer |-> AllOk, short |-> 0, commitFlush |-> TRUE,
     cancelClose |-> TRUE, cancelRemove |-> TRUE,
     closeFlush |-> TRUE, closeClose |-> TRUE]

PutFaults(calls_) == {PutAllOk} \cup {[PutAllOk EXCEPT ![k] = FALSE] : k \in calls_}

PutOutcomes ==
    \* the Writer call fails
    {[PutAllOk EXCEPT !.writer = o] : o \in WriterOutcomes \ {AllOk}}
    \* all bytes are accepted: Commit, then the deferred Close
    \cup PutFaults({"commitFlush", "closeFlush", "closeClose"})
    \* some bytes are not accepted: Cancel, then the deferred Close
    \cup {[x EXCEPT !.short = k] :
            x \in PutFaults({"cancelClose", "cancelRemove", "closeFlush", "closeClose"}),
            k \in 1..MaxPut}

\* io.Copy(writer, bytes.NewReader(contents)): one Write of all the bytes,
\* none when there are no bytes
Copy(f, w, contents, short) ==
    IF contents = << >> THEN Res(f, w, Nil, 0, << >>, FALSE)
    ELSE Write(f, w, contents,
               IF short <= Len(contents) THEN Len(contents) - short ELSE 0)

---------------------------------------------------------------------------
\* State

Callers == 1..NumCallers

Ret(o, p, d, err, n) == [op |-> o, path |-> p, data |-> d, err |-> err, n |-> n]

\* nothing is stored yet: only the root of the filesystem exists
EmptyFS == [q \in AllPaths |-> IF q = << >> THEN Directory ELSE Absent]

InitFS ==
    /\ fs = EmptyFS
    /\ fw = NoWriter
    /\ appendMode = FALSE
    /\ prior = Absent
    /\ written = << >>
    /\ ret = Ret("none", << >>, << >>, Nil, 0)
    /\ calls = << >>
    /\ faulted = FALSE

RegIdle ==
    /\ available = 0
    /\ maxClients = 0
    /\ pc = [c \in Callers |-> "idle"]
    /\ op = [c \in Callers |-> "none"]
    /\ result = [c \in Callers |-> "none"]

\* the bytes stored at a physical path together with those the open handle
\* of fw still buffers for it
Pending(p) == Len(fs[p].data) + (IF fw.path = p THEN Len(fw.file.buf) ELSE 0)

---------------------------------------------------------------------------
\* One caller opening writers and driving them

\* a caller opens its next writer once the transport handle of the previous
\* one is released
DoWriter ==
    /\ fw.file.state # "open"
    /\ \E subPath \in LogicalPaths, append \in BOOLEAN, o \in WriterOutcomes :
        \E r \in {Writer(fs, subPath, append, o)} :
            /\ fs' = r.fs
            /\ fw' = r.fw
            /\ appendMode' = append
            /\ prior' = fs[fullPath(subPath)]
            /\ written' = << >>
            /\ ret' = Ret("Writer", fullPath(subPath), << >>, r.err, 0)
            /\ calls' = r.calls
            /\ faulted' = r.failed
    /\ UNCHANGED regVars

DoWrite ==
    /\ fw.file.state # "nil"
    /\ \E p \in Payloads, n \in 0..MaxLen :
        /\ n <= Len(p)
        /\ Pending(fw.path) + Len(p) <= MaxSize
        /\ \E r \in {Write(fs, fw, p, n)} :
               /\ fs' = r.fs
               /\ fw' = r.fw
               /\ written' = written \o SubSeq(p, 1, r.n)
               /\ ret' = Ret("Write", fw.path, << >>, r.err, r.n)
               /\ calls' = r.calls
               /\ faulted' = r.failed
    /\ UNCHANGED <<appendMode, prior, regVars>>

DoClose ==
    /\ fw.file.state # "nil"
    /\ \E flushOk \in BOOLEAN, closeOk \in BOOLEAN :
        \E r \in {Close(fs, fw, flushOk, closeOk)} :
            /\ fs' = r.fs
            /\ fw' = r.fw
            /\ ret' = Ret("Close", fw.path, << >>, r.err, 0)
            /\ calls' = r.calls
            /\ faulted' = r.failed
    /\ UNCHANGED <<appendMode, prior, written, regVars>>

DoCancel ==
    /\ fw.file.state # "nil"
    /\ \E closeOk \in BOOLEAN, removeOk \in BOOLEAN :
        \E r \in {Cancel(fs, fw, closeOk, removeOk)} :
            /\ fs' = r.fs
            /\ fw' = r.fw
            /\ ret' = Ret("Cancel", fw.path, << >>, r.err, 0)
            /\ calls' = r.calls
            /\ faulted' = r.failed
    /\ UNCHANGED <<appendMode, prior, written, regVars>>

DoCommit ==
    /\ fw.file.state # "nil"
    /\ \E flushOk \in BOOLEAN :
        \E r \in {Commit(fs, fw, flushOk)} :
            /\ fs' = r.fs
            /\ fw' = r.fw
            /\ ret' = Ret("Commit", fw.path, << >>, r.err, 0)
            /\ calls' = r.calls
            /\ faulted' = r.failed
    /\ UNCHANGED <<appendMode, prior, written, regVars>>

Init == InitFS /\ RegIdle

Next == DoWriter \/ DoWrite \/ DoClose \/ DoCancel \/ DoCommit

Spec == Init /\ [][Next]_vars

---------------------------------------------------------------------------
\* One caller storing and retrieving whole contents

\* what PutContent leaves behind: r is the writer and the filesystem after
\* its last call, err the error it returns
PutReturns(subPath, contents, r, err, cs, failed) ==
    /\ fs' = r.fs
    /\ fw' = r.fw
    /\ appendMode' = FALSE
    /\ prior' = fs[fullPath(subPath)]
    /\ written' = << >>
    /\ ret' = Ret("PutContent", subPath, contents, err, 0)
    /\ calls' = cs
    /\ faulted' = failed
    /\ UNCHANGED regVars

\* PutContent with the test on the error of the copy inverted
PutContentInvertedCheck(subPath, contents, x) ==
    \E wr \in {Writer(fs, subPath, FALSE, x.writer)} :
        IF wr.err # Nil
        THEN PutReturns(subPath, contents, wr, wr.err, wr.calls, wr.failed)
        ELSE \E cp \in {Copy(wr.fs, wr.fw, contents, x.short)} :
             \E last \in {IF cp.err = Nil
                          THEN Cancel(cp.fs, cp.fw, x.cancelClose, x.cancelRemove)
                          ELSE Commit(cp.fs, cp.fw, x.commitFlush)} :
             \E cl \in {Close(last.fs, last.fw, x.closeFlush, x.closeClose)} :
                PutReturns(subPath, contents, cl,
                           IF cp.err = Nil THEN cp.err ELSE last.err,
                           wr.calls \o cp.calls \o last.calls \o cl.calls,
                           wr.failed \/ cp.failed \/ last.failed \/ cl.failed)

\* driver.PutContent: the writer is opened in truncate mode; when the copy
\* fails the writer is cancelled and the error of the copy returned, else the
\* error of Commit is returned; the deferred Close runs last
PutContent(subPath, contents, x) ==
    \E wr \in {Writer(fs, subPath, FALSE, x.writer)} :
        IF wr.err # Nil
        THEN PutReturns(subPath, contents, wr, wr.err, wr.calls, wr.failed)
        ELSE \E cp \in {Copy(wr.fs, wr.fw, contents, x.short)} :
             \E last \in {IF cp.err # Nil
                          THEN Cancel(cp.fs, cp.fw, x.cancelClose, x.cancelRemove)
                          ELSE Commit(cp.fs, cp.fw, x.commitFlush)} :
             \E cl \in {Close(last.fs, last.fw, x.closeFlush, x.closeClose)} :
                PutReturns(subPath, contents, cl,
                           IF cp.err # Nil THEN cp.err ELSE last.err,
                           wr.calls \o cp.calls \o last.calls \o cl.calls,
                           wr.failed \/ cp.failed \/ last.failed \/ cl.failed)

DoPutContent ==
    \E subPath \in LogicalPaths, contents \in PutPayloads, x \in PutOutcomes :
        PutContent(subPath, contents, x)

DoGetContent ==
    /\ \E subPath \in LogicalPaths, o \in ReadOutcomes :
        \E r \in {GetContent(fs, subPath, o)} :
            /\ ret' = Ret("GetContent", subPath, r.data, r.err, 0)
            /\ faulted' = (o # AllOk /\ r.err # Nil)
    /\ calls' = << >>
    /\ UNCHANGED <<fs, fw, appendMode, prior, written, regVars>>

DoStat ==
    /\ \E subPath \in LogicalPaths, o \in StatOutcomes :
        \E r \in {Stat(fs, subPath, o)} :
            /\ ret' = Ret("Stat", subPath, << >>, r.err, r.info.Size)
            /\ faulted' = (o # AllOk /\ r.err # Nil)
    /\ calls' = << >>
    /\ UNCHANGED <<fs, fw, appendMode, prior, written, regVars>>

NextContent == DoPutContent \/ DoGetContent \/ DoStat

SpecContent == Init /\ [][NextContent]_vars

---------------------------------------------------------------------------
\* The driver's operations on the tree: Move, Delete and Reader over what
\* PutContent stored

MaxOffset == MaxPut + 1

ReaderOutcomes == {o \in ReadOutcomes : o.read}

\* everything that exists at or beneath the source has a place beneath the
\* destination among the paths of the model
FitsUnder(f, source, dest) ==
    \A q \in AllPaths :
        IsPrefix(source, q) /\ Exists(f, q)
            => dest \o SubSeq(q, Len(source) + 1, Len(q)) \in AllPaths

\* PutContent over a backend none of whose calls fails; the writer is local
\* to PutContent and is gone when it returns
DoStore ==
    /\ \E subPath \in LogicalPaths, contents \in PutPayloads :
        \E wr \in {Writer(fs, subPath, FALSE, AllOk)} :
            IF wr.err # Nil
            THEN /\ fs' = wr.fs
                 /\ ret' = Ret("PutContent", subPath, contents, wr.err, 0)
                 /\ calls' = wr.calls
            ELSE \E cp \in {Copy(wr.fs, wr.fw, contents, 0)} :
                 \E last \in {Commit(cp.fs, cp.fw, TRUE)} :
                 \E cl \in {Close(last.fs, last.fw, TRUE, TRUE)} :
                    /\ fs' = cl.fs
                    /\ ret' = Ret("PutContent", subPath, contents, last.err, 0)
                    /\ calls' = wr.calls \o cp.calls \o last.calls \o cl.calls
    /\ faulted' = FALSE
    /\ UNCHANGED <<fw, appendMode, prior, written, regVars>>

DoMove ==
    /\ \E sourcePath \in MovePaths, destPath \in MovePaths, o \in MoveOutcomes :
        /\ sourcePath # destPath
        /\ FitsUnder(fs, fullPath(sourcePath), fullPath(destPath))
        /\ \E r \in {Move(fs, sourcePath, destPath, o)} :
            /\ fs' = r.fs
            /\ ret' = Ret("Move", sourcePath, destPath, r.err, 0)
            /\ calls' = r.calls
            /\ faulted' = r.failed
    /\ UNCHANGED <<fw, appendMode, prior, written, regVars>>

DoDelete ==
    /\ \E subPath \in MovePaths, o \in DeleteOutcomes :
        \E r \in {Delete(fs, subPath, o)} :
            /\ fs' = r.fs
            /\ ret' = Ret("Delete", subPath, << >>, r.err, 0)
            /\ calls' = r.calls
            /\ faulted' = r.failed
    /\ UNCHANGED <<fw, appendMode, prior, written, regVars>>

DoReader ==
    /\ \E subPath \in MovePaths, offset \in 0..MaxOffset, o \in ReaderOutcomes,
          clamp \in BOOLEAN :
        \E r \in {Reader(fs, subPath, offset, o, clamp)} :
            /\ ret' = Ret("Reader", subPath, r.rest, r.err, offset)
            /\ calls' = IF r.handle = "none" THEN <<"client.Open">>
                         ELSE IF r.handle = "closed"
                         THEN <<"client.Open", "file.Seek", "file.Close">>
                         ELSE <<"client.Open", "file.Seek">>
            /\ faulted' = (o # AllOk /\ r.err # Nil)
    /\ UNCHANGED <<fs, fw, appendMode, prior, written, regVars>>

NextTree == DoStore \/ DoMove \/ DoDelete \/ DoReader

SpecTree == Init /\ [][NextTree]_vars

---------------------------------------------------------------------------
\* The physical paths of the logical paths a caller can pass

Components == {"d", "f", ".", ".."}

RECURSIVE PathsUpTo(_)
PathsUpTo(n) ==
    IF n = 0 THEN {<< >>}
    ELSE LET shorter == PathsUpTo(n - 1)
         IN  shorter \cup {Append(p, c) : p \in shorter, c \in Components}

\* a driver operation resolves the logical path it is given
DoFullPath ==
    /\ \E subPath \in PathsUpTo(MaxDepth) \ {<< >>} :
        ret' = Ret("fullPath", subPath, fullPath(subPath), Nil, 0)
    /\ UNCHANGED <<fs, fw, appendMode, prior, written, calls, faulted, regVars>>

SpecPath == Init /\ [][DoFullPath]_vars

---------------------------------------------------------------------------
\* The regulated driver under concurrent callers

Ops == {"GetContent", "PutContent", "Reader", "Writer", "Stat", "List", "Move", "Delete"}

\* base.NewRegulator: as many free slots as the limit
NewRegulator(limit) == limit

\* New that hands the regulator one slot more than config.maxClients
NewOneSlotMore(config) == NewRegulator(config.maxClients + 1)

\* New that hands the regulator no slot at all
NewWithoutSlots(config) == NewRegulator(0)

\* New: the driver wrapped in a regulator of config.maxClients slots
New(config) == NewRegulator(config.maxClients)

InitRegulator ==
    /\ InitFS
    /\ maxClients \in 1..MaxCap
    /\ available = New([maxClients |-> maxClients])
    /\ pc = [c \in Callers |-> "idle"]
    /\ op = [c \in Callers |-> "none"]
    /\ result = [c \in Callers |-> "none"]

\* a caller invokes an operation of the Driver
Invoke(c) ==
    /\ pc[c] = "idle"
    /\ \E o \in Ops : op' = [op EXCEPT ![c] = o]
    /\ pc' = [pc EXCEPT ![c] = "enter"]
    /\ UNCHANGED <<available, maxClients, result, fsVars>>

\* regulator.enter: waits for a free slot and takes it; the operation of the
\* wrapped driver starts
Enter(c) ==
    /\ pc[c] = "enter"
    /\ available > 0
    /\ available' = available - 1
    /\ pc' = [pc EXCEPT ![c] = "running"]
    /\ UNCHANGED <<op, maxClients, result, fsVars>>

\* the operation of the wrapped driver returns; regulator.exit frees the slot
Exit(c) ==
    /\ pc[c] = "running"
    /\ available' = available + 1
    /\ pc' = [pc EXCEPT ![c] = "idle"]
    /\ op' = [op EXCEPT ![c] = "none"]
    /\ UNCHANGED <<maxClients, result, fsVars>>

InFlight == {c \in Callers : pc[c] = "running"}

NextRegulator == \E c \in Callers : Invoke(c) \/ Enter(c) \/ Exit(c)

SpecRegulator == InitRegulator /\ [][NextRegulator]_vars

\* the operation of the wrapped driver returns, with or without an error;
\* the deferred regulator.exit frees the slot
Return(c) ==
    /\ pc[c] = "running"
    /\ \E err \in {Nil, ErrBackend} : ret' = Ret("returned", << >>, << >>, err, 0)
    /\ available' = available + 1
    /\ pc' = [pc EXCEPT ![c] = "idle"]
    /\ op' = [op EXCEPT ![c] = "none"]
    /\ UNCHANGED <<maxClients, result, fs, fw, appendMode, prior, written, calls, faulted>>

\* the callers that compete for the slots under fairness
FairCallers == 1..(NumCallers - 1)

NextReturning == \E c \in FairCallers : Invoke(c) \/ Enter(c) \/ Return(c)

\* every operation terminates, and a caller that finds a free slot again and
\* again takes one in the end
SpecFair ==
    /\ InitRegulator
    /\ [][NextReturning]_vars
    /\ \A c \in FairCallers : WF_vars(Return(c)) /\ SF_vars(Enter(c))

---------------------------------------------------------------------------
\* Concurrent callers of one driver: Delete and Move of one path and a Writer
\* on it run through the regulator one backend call at a time; the methods
\* of the fileWriter that Writer returned are called on it directly

ConsumedPath == <<"d">>
MoveDest == <<"e", "g">>

ClientOps == {"Delete", "Move", "Writer"}

\* the callers that are inside Writer or hold the fileWriter it returned
WriterUsers ==
    {c \in Callers : pc[c] \in {"holding", "calling"}
                        \/ (op[c] = "Writer" /\ pc[c] # "idle")}

\* a caller invokes Delete, Move or Writer of the Driver
Begin(c) ==
    /\ pc[c] = "idle"
    /\ \E o \in ClientOps :
        /\ o = "Writer" => WriterUsers = {}
        /\ op' = [op EXCEPT ![c] = o]
    /\ pc' = [pc EXCEPT ![c] = "enter"]
    /\ result' = [result EXCEPT ![c] = "none"]
    /\ UNCHANGED <<available, maxClients, fsVars>>

\* regulator.enter: waits for a free slot and takes it
Admit(c) ==
    /\ pc[c] = "enter"
    /\ available > 0
    /\ available' = available - 1
    /\ pc' = [pc EXCEPT ![c] = IF op[c] = "Writer" THEN "open" ELSE "stat"]
    /\ UNCHANGED <<op, maxClients, result, fsVars>>

\* the client.Stat of Delete and of Move
StatStep(c) ==
    /\ pc[c] = "stat"
    /\ \E st \in {clientStat(fs, fullPath(ConsumedPath), TRUE)} :
        IF st.err = ErrNotExist
        THEN /\ result' = [result EXCEPT ![c] = PathNotFoundError]
             /\ pc' = [pc EXCEPT ![c] = "exit"]
        ELSE /\ pc' = [pc EXCEPT ![c] = IF op[c] = "Delete" THEN "remove" ELSE "mkdir"]
             /\ UNCHANGED result
    /\ UNCHANGED <<available, op, maxClients, fsVars>>

\* the client.Remove of Delete, whose error Delete returns
RemoveStep(c) ==
    /\ pc[c] = "remove"
    /\ \E rm \in {clientRemove(fs, fullPath(ConsumedPath), TRUE)} :
        /\ fs' = rm.fs
        /\ result' = [result EXCEPT ![c] = rm.err]
    /\ pc' = [pc EXCEPT ![c] = "exit"]
    /\ UNCHANGED <<available, op, maxClients, fw, appendMode, prior, written, ret,
                   calls, faulted>>

\* the client.MkdirAll of Move
MkdirStep(c) ==
    /\ pc[c] = "mkdir"
    /\ \E mk \in {clientMkdirAll(fs, Dir(fullPath(MoveDest)), TRUE)} :
        /\ fs' = mk.fs
        /\ IF mk.err # Nil
           THEN /\ result' = [result EXCEPT ![c] = mk.err]
                /\ pc' = [pc EXCEPT ![c] = "exit"]
           ELSE /\ pc' = [pc EXCEPT ![c] = "rename"]
                /\ UNCHANGED result
    /\ UNCHANGED <<available, op, maxClients, fw, appendMode, prior, written, ret,
                   calls, faulted>>

\* the client.Rename of Move, whose error Move returns
RenameStep(c) ==
    /\ pc[c] = "rename"
    /\ \E rn \in {clientRename(fs, fullPath(ConsumedPath), fullPath(MoveDest), TRUE)} :
        /\ fs' = rn.fs
        /\ result' = [result EXCEPT ![c] = rn.err]
    /\ pc' = [pc EXCEPT ![c] = "exit"]
    /\ UNCHANGED <<available, op, maxClients, fw, appendMode, prior, written, ret,
                   calls, faulted>>

\* driver.Writer in truncate mode
OpenStep(c) ==
    /\ pc[c] = "open"
    /\ \E wr \in {Writer(fs, ConsumedPath, FALSE, AllOk)} :
        /\ fs' = wr.fs
        /\ fw' = wr.fw
        /\ result' = [result EXCEPT ![c] = wr.err]
    /\ pc' = [pc EXCEPT ![c] = "exit"]
    /\ UNCHANGED <<available, op, maxClients, appendMode, prior, written, ret, calls,
                   faulted>>

\* the operation returns and regulator.exit frees the slot; the caller of a
\* Writer that succeeded holds the fileWriter
Leave(c) ==
    /\ pc[c] = "exit"
    /\ available' = available + 1
    /\ pc' = [pc EXCEPT ![c] = IF op[c] = "Writer" /\ result[c] = Nil
                               THEN "holding" ELSE "idle"]
    /\ UNCHANGED <<op, maxClients, result, fsVars>>

\* the holder calls Write or Close on the fileWriter: no slot is asked for
MethodBegins(c) ==
    /\ pc[c] = "holding"
    /\ \E m \in {"Write", "Close"} :
        /\ m = "Write" => Pending(fw.path) + 1 <= MaxSize
        /\ op' = [op EXCEPT ![c] = m]
    /\ pc' = [pc EXCEPT ![c] = "calling"]
    /\ UNCHANGED <<available, maxClients, result, fsVars>>

\* the backend calls of the method are done and it returns; the holder lets
\* go of the fileWriter after Close
MethodReturns(c) ==
    /\ pc[c] = "calling"
    /\ \E r \in {IF op[c] = "Write" THEN Write(fs, fw, <<0>>, 1)
                  ELSE Close(fs, fw, TRUE, TRUE)} :
        /\ fs' = r.fs
        /\ fw' = r.fw
        /\ result' = [result EXCEPT ![c] = r.err]
    /\ pc' = [pc EXCEPT ![c] = IF op[c] = "Write" THEN "holding" ELSE "idle"]
    /\ UNCHANGED <<available, op, maxClients, appendMode, prior, written, ret, calls,
                   faulted>>

\* the callers with a backend call in progress
BackendCalls ==
    {c \in Callers : pc[c] \in {"stat", "remove", "mkdir", "rename", "open", "calling"}}

NextClients ==
    \E c \in Callers :
        \/ Begin(c) \/ Admit(c) \/ StatStep(c) \/ RemoveStep(c) \/ MkdirStep(c)
        \/ RenameStep(c) \/ OpenStep(c) \/ Leave(c) \/ MethodBegins(c)
        \/ MethodReturns(c)

SpecClients == InitRegulator /\ [][NextClients]_vars

---------------------------------------------------------------------------
\* Properties

\* a fileWriter on which none of Close, Commit and Cancel has taken effect
WriterOpen(w) ==
    w.file.state # "nil" /\ ~w.closed /\ ~w.committed /\ ~w.cancelled

\* C1: the operations that have entered the wrapped driver through the
\* regulator and have not yet returned are never more than config.maxClients.
C1_InFlightBounded == Cardinality(InFlight) <= maxClients

\* every slot is taken and a further caller is waiting for one
C1_Witness ==
    /\ Cardinality(InFlight) = maxClients
    /\ \E c \in Callers : pc[c] = "enter"

\* C2: a fileWriter is never both committed and cancelled.
C2_NotCommittedAndCancelled == ~(fw.committed /\ fw.cancelled)

\* C3: once Commit has succeeded, every Write and every Commit fails with a
\* state-violation error; the Write returns 0, issues no transport call and
\* leaves the writer (its size included) and the filesystem as they were.
C3_CommittedRejects ==
    [][(fw.committed /\ ret'.op \in {"Write", "Commit"}) =>
          /\ ret'.err \in StateViolations
          /\ ret'.n = 0
          /\ calls' = << >>
          /\ Size(fw') = Size(fw)
          /\ fw' = fw
          /\ fs' = fs
          /\ written' = written]_vars

\* a Write was rejected because the writer is committed
C3_Witness ==
    /\ fw.committed /\ ~fw.closed
    /\ ret.op = "Write" /\ ret.err = ErrCommitted /\ ret.n = 0

\* C4: Cancel on a fileWriter that is committed or cancelled fails with an
\* "already ..." error, does not close the transport handle and does not
\* remove the target path.
C4_CancelOnlyWhenOpen ==
    [][((fw.committed \/ fw.cancelled) /\ ret'.op = "Cancel") =>
          /\ ret'.err \in StateViolations
          /\ calls' = << >>
          /\ fs' = fs]_vars

\* C5: once Close has succeeded, every Write, Commit, Cancel and Close fails
\* with "already closed", issues no backend call and changes neither the
\* writer (flags, size, handle) nor the filesystem.
C5_ClosedRejects ==
    [][(fw.closed /\ ret'.op \in {"Write", "Commit", "Cancel", "Close"}) =>
          /\ ret'.err = ErrClosed
          /\ calls' = << >>
          /\ fw' = fw
          /\ fs' = fs]_vars

\* a second Close was rejected
C5_Witness == fw.closed /\ ret.op = "Close" /\ ret.err = ErrClosed

\* C6: when Cancel on an open fileWriter returns no error, nothing exists at
\* the target path: Stat and GetContent on it return path-not-found.
C6_CancelRemoves ==
    [][(WriterOpen(fw) /\ ret'.op = "Cancel" /\ ret'.err = Nil) =>
          /\ ~Exists(fs', fw.path)
          /\ \A l \in LogicalPaths :
                fullPath(l) = fw.path =>
                    /\ Stat(fs', l, AllOk).err = PathNotFoundError
                    /\ GetContent(fs', l, AllOk).err = PathNotFoundError]_vars

\* a writer opened in append mode on an existing file was cancelled after the
\* transport had accepted bytes
C6_Witness ==
    /\ ret.op = "Cancel" /\ ret.err = Nil
    /\ fw.cancelled /\ ~fw.committed /\ ~fw.closed
    /\ appendMode /\ prior.kind = "file" /\ written # << >>
    /\ ~Exists(fs, fw.path)

\* C7: when no backend call of PutContent(p, B) fails, it succeeds, and then
\* GetContent(p) returns B and Stat(p).Size is len(B).
C7_PutGetRoundTrip ==
    (ret.op = "PutContent" /\ ~faulted) =>
        /\ ret.err = Nil
        /\ GetContent(fs, ret.path, AllOk) = [err |-> Nil, data |-> ret.data]
        /\ Stat(fs, ret.path, AllOk).err = Nil
        /\ Stat(fs, ret.path, AllOk).info.Size = Len(ret.data)

\* a PutContent replaced other bytes, or a directory, by its own
C7_Witness ==
    /\ ret.op = "PutContent" /\ ~faulted /\ ret.data # << >>
    /\ prior.kind # "absent" /\ prior.data # ret.data
    /\ fs[fullPath(ret.path)] = File(ret.data)

\* C8: when PutContent returns an error after its writer was opened, nothing
\* is left at the path.
C8_FailedPutLeavesNothing ==
    (ret.op = "PutContent" /\ ret.err # Nil /\ fw.file.state # "nil") =>
        ~Exists(fs, fullPath(ret.path))

\* C9: a writer opened in append mode on a file of N bytes starts at size N;
\* once M further bytes were accepted and Commit succeeded, the file holds
\* its former N bytes followed by those M bytes, and Size() is N + M.
C9_AppendKeepsPrefix ==
    (appendMode /\ prior.kind = "file" /\ fw.file.state # "nil") =>
        /\ ret.op = "Writer" => Size(fw) = Len(prior.data)
        /\ (ret.op = "Commit" /\ ret.err = Nil) =>
              /\ fs[fw.path] = File(prior.data \o written)
              /\ Size(fw) = Len(prior.data) + Len(written)

\* bytes were appended to a non-empty file and committed
C9_Witness ==
    /\ appendMode /\ prior.kind = "file" /\ prior.data # << >>
    /\ ret.op = "Commit" /\ ret.err = Nil /\ written # << >>
    /\ fs[fw.path] = File(prior.data \o written)

\* C10: a writer opened in truncate mode on an existing object starts at size
\* 0 on an empty file; once Q bytes were accepted and Commit succeeded, the
\* file holds exactly those Q bytes and Stat reports size Q.
C10_TruncateDiscards ==
    (~appendMode /\ prior.kind # "absent" /\ fw.file.state # "nil") =>
        /\ ret.op = "Writer" => (Size(fw) = 0 /\ fs[fw.path] = File(<< >>))
        /\ (ret.op = "Commit" /\ ret.err = Nil) =>
              /\ fs[fw.path] = File(written)
              /\ Size(fw) = Len(written)
              /\ \A l \in LogicalPaths :
                    fullPath(l) = fw.path =>
                        Stat(fs, l, AllOk).info.Size = Len(written)

\* a non-empty file was replaced by other bytes
C10_Witness ==
    /\ ~appendMode /\ prior.kind = "file" /\ prior.data # << >>
    /\ ret.op = "Commit" /\ ret.err = Nil
    /\ written # << >> /\ written # prior.data
    /\ fs[fw.path] = File(written)

\* C11: a Move whose source exists and whose destination has no parent yet
\* succeeds, creates the chain of parents and leaves at the destination what
\* the source was, with the source gone; a Move whose source is missing fails
\* with PathNotFoundError and changes nothing, so it creates no directory
C11_MoveCreatesParents ==
    [][(ret'.op = "Move" /\ calls' # << >> /\ ~faulted')
        => LET source == fullPath(ret'.path)
               dest == fullPath(ret'.data)
           IN  /\ (Exists(fs, source) /\ ~Exists(fs, Dir(dest)))
                    => /\ ret'.err = Nil
                       /\ \A q \in Prefixes(Dir(dest)) : fs'[q] = Directory
                       /\ fs'[dest] = fs[source]
                       /\ ~Exists(fs', source)
               /\ ~Exists(fs, source)
                    => /\ ret'.err = PathNotFoundError
                       /\ fs' = fs]_vars

\* a second Move of <<"d", "f">> to <<"e", "g">> fails after the first one
\* put the file there
C11_Witness ==
    /\ ret.op = "Move" /\ ret.err = PathNotFoundError
    /\ ret.path = <<"d", "f">> /\ ret.data = <<"e", "g">>
    /\ fs[fullPath(<<"e", "g">>)].kind = "file"
    /\ Len(fs[fullPath(<<"e", "g">>)].data) > 0
    /\ ~Exists(fs, fullPath(<<"d", "f">>))

\* C12: Delete of a missing path fails with PathNotFoundError and leaves the
\* filesystem as it was; Delete of a path that exists removes it, so that a
\* Stat and a second Delete of it both return PathNotFoundError
C12_DeleteRemoves ==
    [][(ret'.op = "Delete" /\ calls' # << >> /\ ~faulted')
        => IF ~Exists(fs, fullPath(ret'.path))
           THEN ret'.err = PathNotFoundError /\ fs' = fs
           ELSE /\ ret'.err = Nil
                /\ ~Exists(fs', fullPath(ret'.path))
                /\ Stat(fs', ret'.path, AllOk).err = PathNotFoundError
                /\ Delete(fs', ret'.path, AllOk).err = PathNotFoundError
                /\ Delete(fs', ret'.path, AllOk).fs = fs']_vars

\* Delete has removed <<"d">>, a file, while the file moved to <<"e", "g">>
\* earlier is still there
C12_Witness ==
    /\ ret.op = "Delete" /\ ret.err = Nil /\ ret.path = <<"d">>
    /\ calls = <<"client.Stat", "client.Remove">>
    /\ ~Exists(fs, fullPath(<<"d">>))
    /\ fs[fullPath(<<"e", "g">>)].kind = "file"

\* C13: a Reader whose offset lies beyond the end of an existing file fails
\* with InvalidOffsetError and has closed the read handle; a Reader of a
\* missing path fails with PathNotFoundError
C13_ReaderPastEnd ==
    (ret.op = "Reader" /\ ~faulted)
        => LET p == fullPath(ret.path)
           IN  /\ (fs[p].kind = "file" /\ Len(fs[p].data) < ret.n)
                    => /\ ret.err = InvalidOffsetError
                       /\ calls[Len(calls)] = "file.Close"
               /\ ~Exists(fs, p) => ret.err = PathNotFoundError

C15_BackendFailureReturned ==
    (ret.op = "PutContent" /\ faulted) => ret.err # Nil

\* C17: no method of a fileWriter issues a write, a flush or a close on a
\* transport handle that is already closed
C17_NoCallOnClosedHandle ==
    [][(fw.file.state = "closed" /\ ret'.op \in {"Write", "Commit", "Cancel", "Close"})
        => \A i \in DOMAIN calls' :
            calls'[i] \notin {"file.Write", "file.Flush", "file.Close"}]_vars

\* C18: the physical path a logical path resolves to lies at or beneath the
\* root: the components of the root are a prefix of its components
C18_BeneathRoot ==
    ret.op = "fullPath" => IsPrefix(rootPath, ret.data)

\* C19: a Commit whose flush fails and a Close whose flush or close fails
\* return that error and leave closed, committed, cancelled and Size() as they
\* were; a writer that was open is open still and rejects neither a Write nor
\* a Commit for its state
C19_FailedTransitionKeepsState ==
    [][(ret'.op \in {"Commit", "Close"} /\ faulted')
        => /\ ret'.err = ErrBackend
           /\ fw'.closed = fw.closed
           /\ fw'.committed = fw.committed
           /\ fw'.cancelled = fw.cancelled
           /\ Size(fw') = Size(fw)
           /\ WriterOpen(fw)
                => /\ WriterOpen(fw')
                   /\ fw'.file.state = "open"
                   /\ Write(fs', fw', <<0>>, 1).err \notin StateViolations
                   /\ Commit(fs', fw', TRUE).err \notin StateViolations]_vars

\* the Close of an open writer that has taken bytes failed at the close of
\* the handle, and the writer is open still
C19_Witness ==
    /\ ret.op = "Close" /\ ret.err = ErrBackend
    /\ calls = <<"file.Flush", "file.Close">>
    /\ WriterOpen(fw) /\ Size(fw) > 0

\* C16: the callers with a backend call in progress, those inside a method
\* of a fileWriter included, are never more than config.maxClients
C16_BackendCallsBounded == Cardinality(BackendCalls) <= maxClients

\* C20: with two slots or more, a Delete or a Move of a path that other
\* callers delete or move at the same time returns nil or PathNotFoundError
C20_RaceReturnsTypedError ==
    maxClients >= 2
        => \A c \in Callers :
            (op[c] \in {"Delete", "Move"} /\ pc[c] \in {"exit", "idle"})
                => result[c] \in {Nil, PathNotFoundError}

====
